---- MODULE Spec2Model ----
(***************************************************************************)
(* A state-machine model of oceanmesh/mesh_generator.py:                   *)
(*   generate_mesh            (the Persson-Strang relaxation loop)         *)
(*   generate_multiscale_mesh (the multi-scale composer)                   *)
(*                                                                         *)
(* Conventions.                                                            *)
(*  - A point is a pair <<x, y>> of integers; P is a sequence of points.   *)
(*    Python row r of an array is element r+1 of the sequence, so the      *)
(*    slice Ftot[:nfix] is the index set 1..nfix.                           *)
(*  - The signed distance function is the strip fd(x, y) = |x - 1| - 1,    *)
(*    which is an exact Euclidean SDF with integer values on the lattice.  *)
(*  - geps = 1e-3 * min_edge_length is kept exact by comparing             *)
(*    1000 * fd against min_edge_length.                                    *)
(*  - Size functions are kept in doubled units (twice the edge length) so  *)
(*    that their values at bar midpoints stay integers.                    *)
(***************************************************************************)
EXTENDS Integers, Sequences, FiniteSets, TLC

\* ------------------------------------------------------------------ bounds
\* largest max_iter passed to generate_mesh
MaxIter == 2

\* longest list of domains passed to generate_multiscale_mesh
MaxDomains == 3

\* ------------------------------------------------------------------ values
Range(s) == {s[i] : i \in 1..Len(s)}

Abs(n) == IF n < 0 THEN -n ELSE n

Min2(a, b) == IF a <= b THEN a ELSE b

\* keys accepted by _parse_kwargs
RecognizedKeys ==
  {"nscreen", "max_iter", "seed", "pfix", "points", "domain", "edge_length",
   "bbox", "min_edge_length", "plot", "blend_width", "blend_polynomial",
   "blend_max_iter", "blend_nnear", "lock_boundary", "pseudo_dt"}

\* _parse_kwargs with "nscreen" dropped from its set literal
ParseKwargsRaisesNoNscreen(keys) ==
  \E key \in keys : key \notin RecognizedKeys \ {"nscreen"}

\* _parse_kwargs: TRUE iff it raises ValueError for this set of keys
ParseKwargsRaises(keys) == \E key \in keys : key \notin RecognizedKeys

\* defaults of generate_mesh's opts
DefaultMaxIter == 50

\* default of generate_multiscale_mesh's opts
DefaultBlendMaxIter == 20

\* the starting value of global_minimum in generate_multiscale_mesh
GlobalMinimumStart == 9999

\* opts = defaults updated by kwargs (generate_mesh); kw is a record
\* [keys, max_iter, min_edge_length, pfix, points, lock_boundary] whose value
\* fields are read only when their key is in kw.keys
OptMaxIter(kw) == IF "max_iter" \in kw.keys THEN kw.max_iter ELSE DefaultMaxIter

OptLockBoundary(kw) ==
  IF "lock_boundary" \in kw.keys THEN kw.lock_boundary ELSE FALSE

OptPfixGiven(kw) == "pfix" \in kw.keys

OptPointsGiven(kw) == "points" \in kw.keys

\* _unpack_sizing: a Grid carries its own hmin; a bare callable takes the
\* min_edge_length option, which is None unless the caller passed it.
\* e is a record [grid, hmin, kind]; kind names the function fh.
_unpack_sizing(e, kw) ==
  IF e.grid
  THEN [given |-> TRUE, val |-> e.hmin]
  ELSE [given |-> "min_edge_length" \in kw.keys, val |-> kw.min_edge_length]

\* ------------------------------------------------------------------ domain
\* s * fd(q / s) for the strip |x - 1| - 1; fd(p) is FdScaled(p, 1)
FdScaled(q, s) == Abs(q[1] - s) - s

fd(pt) == FdScaled(pt, 1)

\* forward-difference gradient of fd at an exterior point (d > 0)
FdGrad(pt) == IF pt[1] > 1 THEN <<1, 0>> ELSE <<-1, 0>>

\* twice the size function at the point q / 2
FhTwice(kind, q) ==
  CASE kind = "uniform" -> 2
    [] kind = "graded" -> 2 + Abs(q[1])
    [] kind = "fine" -> 1

\* ------------------------------------------------------------------ geometry
SqDist(a, b) == (a[1] - b[1]) * (a[1] - b[1]) + (a[2] - b[2]) * (a[2] - b[2])

\* _closest_node: index of the nearest row, lowest index on ties (np.argmin)
_closest_node(node, nodes) ==
  CHOOSE i \in 1..Len(nodes) :
    \A j \in 1..Len(nodes) :
      \/ SqDist(nodes[i], node) < SqDist(nodes[j], node)
      \/ SqDist(nodes[i], node) = SqDist(nodes[j], node) /\ i <= j

Orient(a, b, c) ==
  (b[1] - a[1]) * (c[2] - a[2]) - (b[2] - a[2]) * (c[1] - a[1])

InCircleDet(a, b, c, d) ==
  LET adx == a[1] - d[1]
      ady == a[2] - d[2]
      bdx == b[1] - d[1]
      bdy == b[2] - d[2]
      cdx == c[1] - d[1]
      cdy == c[2] - d[2]
      ad2 == adx * adx + ady * ady
      bd2 == bdx * bdx + bdy * bdy
      cd2 == cdx * cdx + cdy * cdy
  IN adx * (bdy * cd2 - bd2 * cdy)
       - ady * (bdx * cd2 - bd2 * cdx)
       + ad2 * (bdx * cdy - bdy * cdx)

\* d lies strictly inside the circumcircle of the triangle a b c
InCircumcircle(a, b, c, d) == InCircleDet(a, b, c, d) * Orient(a, b, c) > 0

\* triangles of P with ascending indices whose circumcircle is empty
DelaunayCandidates(P) ==
  {tr \in (1..Len(P)) \X (1..Len(P)) \X (1..Len(P)) :
     /\ tr[1] < tr[2] /\ tr[2] < tr[3]
     /\ Orient(P[tr[1]], P[tr[2]], P[tr[3]]) # 0
     /\ \A l \in 1..Len(P) :
          l \in {tr[1], tr[2], tr[3]}
            \/ ~InCircumcircle(P[tr[1]], P[tr[2]], P[tr[3]], P[l])}

\* an edge of triangle A separates A from triangle B
SeparatedBy(P, A, B) ==
  \E e \in {<<1, 2, 3>>, <<2, 3, 1>>, <<3, 1, 2>>} :
    \A v \in 1..3 :
      Orient(P[A[e[1]]], P[A[e[2]]], P[B[v]])
        * Orient(P[A[e[1]]], P[A[e[2]]], P[A[e[3]]]) <= 0

InteriorDisjoint(P, A, B) == SeparatedBy(P, A, B) \/ SeparatedBy(P, B, A)

\* the Delaunay triangulations of P: maximal interior-disjoint sets of
\* empty-circle triangles (more than one when points are co-circular)
Triangulations(P) ==
  LET cand == DelaunayCandidates(P)
      ok(S) == \A A \in S : \A B \in S : A = B \/ InteriorDisjoint(P, A, B)
  IN {S \in SUBSET cand :
        /\ ok(S)
        /\ \A c \in cand \ S : ~ok(S \cup {c})}

\* the orders in which the triangulator may return the distinct input points
VertexOrders(S) ==
  {q \in [1..Cardinality(S) -> S] : \A i, j \in DOMAIN q : q[i] = q[j] => i = j}

\* _get_bars / unique_edges: each side once, as an ascending index pair
_get_bars(T) ==
  {<<tr[1], tr[2]>> : tr \in T} \cup {<<tr[2], tr[3]>> : tr \in T}
    \cup {<<tr[1], tr[3]>> : tr \in T}

\* _external_topology: positions of the vertices on edges owned by one triangle
_external_topology(P, T) ==
  LET sides(tr) == {<<tr[1], tr[2]>>, <<tr[2], tr[3]>>, <<tr[1], tr[3]>>}
      boundary == {e \in _get_bars(T) :
                     Cardinality({tr \in T : e \in sides(tr)}) = 1}
  IN {P[e[1]] : e \in boundary} \cup {P[e[2]] : e \in boundary}

\* ------------------------------------------------------------------ sums
RECURSIVE SumOver(_, _)
\* sum of the integers f[x] for x in S
SumOver(S, f) ==
  IF S = {} THEN 0
  ELSE LET x == CHOOSE x \in S : TRUE IN f[x] + SumOver(S \ {x}, f)

\* ------------------------------------------------------------------ seeding
\* one axis of np.mgrid[slice(min, max + h, h)]
Axis(lo, hi, h) ==
  {v \in {lo + k * h : k \in 0..(hi - lo + h)} : v < hi + h}

RECURSIVE LexSeq(_)
\* the points of S in x-major order (the row order of p.reshape(2, -1).T)
LexSeq(S) ==
  IF S = {} THEN <<>>
  ELSE LET m == CHOOSE m \in S :
                  \A q \in S : m[1] < q[1] \/ (m[1] = q[1] /\ m[2] <= q[2])
       IN <<m>> \o LexSeq(S \ {m})

Lattice(bbox, h) == LexSeq(Axis(bbox[1][1], bbox[1][2], h) \X Axis(bbox[2][1], bbox[2][2], h))

\* lattice points whose size is at least min_edge_length: r0[r0 >= min_edge_length]
CoarseEnough(lat, kind, h) ==
  {i \in 1..Len(lat) : FhTwice(kind, <<2 * lat[i][1], 2 * lat[i][2]>>) >= 2 * h}

\* _generate_initial_points raises ValueError: np.min of an empty array
InitialPointsRaises(h, bbox, kind) ==
  CoarseEnough(Lattice(bbox, h), kind, h) = {}

\* _generate_initial_points: every point set the PRNG can produce.
\* Points with r0m^2 / r0^2 >= 1 always pass rand() < ratio; the others pass
\* or fail with the draw, so any subset D of them may survive.
_generate_initial_points(h, bbox, kind, pfix) ==
  LET lat == Lattice(bbox, h)
      r(i) == FhTwice(kind, <<2 * lat[i][1], 2 * lat[i][2]>>)
      ce == CoarseEnough(lat, kind, h)
      r0m == CHOOSE m \in {r(i) : i \in ce} : \A i \in ce : m <= r(i)
      sure == {lat[i] : i \in {j \in 1..Len(lat) : r(j) <= r0m}}
      unsure == Range(lat) \ sure
      interior(pt) == 1000 * fd(pt) < h
  IN {pfix \o SelectSeq(lat, LAMBDA pt : (pt \in sure \/ pt \in D) /\ interior(pt)) :
        D \in SUBSET unsure}

\* _unpack_pfix
_unpack_pfix(kw) == IF OptPfixGiven(kw) THEN kw.pfix ELSE <<>>

\* ------------------------------------------------------------------ loop body
RECURSIVE SnapFixed(_, _, _)
\* lines 495-498: for fix in pfix: ind = _closest_node(fix, p); p[ind] = fix
SnapFixed(P, pfx, k) ==
  IF k > Len(pfx) THEN P
  ELSE SnapFixed([P EXCEPT ![_closest_node(pfx[k], P)] = pfx[k]], pfx, k + 1)

RECURSIVE SnapIndices(_, _, _)
\* the indices appended to ifix by the same loop
SnapIndices(P, pfx, k) ==
  IF k > Len(pfx) THEN <<>>
  ELSE <<_closest_node(pfx[k], P)>>
         \o SnapIndices([P EXCEPT ![_closest_node(pfx[k], P)] = pfx[k]], pfx, k + 1)

\* the filter with the sign of geps dropped: fd < geps
RemoveTrianglesOutsidePlusGeps(P, T, h) ==
  {tr \in T :
     1000 * FdScaled(<<P[tr[1]][1] + P[tr[2]][1] + P[tr[3]][1],
                       P[tr[1]][2] + P[tr[2]][2] + P[tr[3]][2]>>, 3) < 3 * h}

\* _remove_triangles_outside: keep triangles whose centroid has fd < -geps
_remove_triangles_outside(P, T, h) ==
  {tr \in T :
     1000 * FdScaled(<<P[tr[1]][1] + P[tr[2]][1] + P[tr[3]][1],
                       P[tr[1]][2] + P[tr[2]][2] + P[tr[3]][2]>>, 3) < -(3 * h)}

\* bars with F = max(L0 - L, 0) > 0, where
\* L0 = hbars * L0mult * sqrt(sum(L^2) / sum(hbars^2)) and L0mult = 1.2:
\* L < L0  <=>  100 * L^2 * sum(hbars^2) < 144 * hbars^2 * sum(L^2)
ActiveBars(P, T, kind) ==
  LET bars == _get_bars(T)
      L2 == [e \in bars |-> SqDist(P[e[1]], P[e[2]])]
      hb == [e \in bars |-> FhTwice(kind, <<P[e[1]][1] + P[e[2]][1],
                                            P[e[1]][2] + P[e[2]][2]>>)]
      H2 == [e \in bars |-> hb[e] * hb[e]]
  IN {e \in bars : 100 * L2[e] * SumOver(bars, H2) < 144 * H2[e] * SumOver(bars, L2)}

\* _compute_forces: Ftot[i] = sum of Fvec over bars starting at i minus the sum
\* over bars ending at i, Fvec = (F / L) * barvec. The factor delta_t * F / L of
\* an active bar is quantised to 1, so that positions stay on the lattice.
_compute_forces(P, T, kind) ==
  LET act == ActiveBars(P, T, kind)
      fx(i) == SumOver({e \in act : e[1] = i}, [e \in act |-> P[e[1]][1] - P[e[2]][1]])
                 - SumOver({e \in act : e[2] = i}, [e \in act |-> P[e[1]][1] - P[e[2]][1]])
      fy(i) == SumOver({e \in act : e[1] = i}, [e \in act |-> P[e[1]][2] - P[e[2]][2]])
                 - SumOver({e \in act : e[2] = i}, [e \in act |-> P[e[1]][2] - P[e[2]][2]])
  IN [i \in 1..Len(P) |-> <<fx(i), fy(i)>>]

\* Ftot[:nfix] = 0
ZeroFirst(F, n) == [i \in 1..Len(F) |-> IF i <= n THEN <<0, 0>> ELSE F[i]]

\* p += delta_t * Ftot
Integrated(P, F) == [i \in 1..Len(P) |-> <<P[i][1] + F[i][1], P[i][2] + F[i][2]>>]

\* _project_points_back: one Newton step p -= d * grad / |grad|^2 for d > 0
_project_points_back(P) ==
  [i \in 1..Len(P) |->
     IF fd(P[i]) > 0
     THEN <<P[i][1] - fd(P[i]) * FdGrad(P[i])[1], P[i][2] - fd(P[i]) * FdGrad(P[i])[2]>>
     ELSE P[i]]

\* fix_mesh(p, t, delete_unused=True): drop the vertices no triangle uses and
\* renumber the triangles
fix_mesh(P, T) ==
  LET used == {i \in 1..Len(P) : \E tr \in T : i \in {tr[1], tr[2], tr[3]}}
      new(i) == Cardinality({j \in used : j <= i})
  IN [p |-> [k \in 1..Cardinality(used) |-> P[CHOOSE i \in used : new(i) = k]],
      t |-> {<<new(tr[1]), new(tr[2]), new(tr[3])>> : tr \in T}]

\* ------------------------------------------------------------------ state
VARIABLES
  kwargs,        \* the keyword arguments of the call
  domain,        \* the bbox of the Domain object passed as `domain`
  edge_length,   \* the size function passed as `edge_length` (its kind)
  pc,            \* position in generate_mesh
  err,           \* the exception that ended the call, or "none"
  seeded,        \* np.random.seed has been called
  pfix,          \* local pfix
  nfix,          \* local nfix
  p,             \* local p
  t,             \* local t
  ifix,          \* local ifix
  Ftot,          \* local Ftot
  count,         \* loop variable
  fixerCalls,    \* the (p, t) arguments of every fix_mesh call so far
  ret,           \* the value returned, <<>> while none
  trace,         \* the loop steps executed so far
  ms             \* state of generate_multiscale_mesh

vars ==
  <<kwargs, domain, edge_length, pc, err, seeded, pfix, nfix, p, t, ifix, Ftot,
    count, fixerCalls, ret, trace, ms>>

locals == <<pfix, nfix, p, t, ifix, Ftot, count>>

inputs == <<kwargs, domain, edge_length>>

\* ------------------------------------------------------------------ inputs
BoxIn == <<<<0, 1>>, <<0, 0>>>>

BoxOut == <<<<3, 3>>, <<0, 0>>>>

Callable(kind) == [grid |-> FALSE, hmin |-> 0, kind |-> kind]

Grid(hmin, kind) == [grid |-> TRUE, hmin |-> hmin, kind |-> kind]

SizeKinds == {"uniform", "graded", "fine"}

PfixChoices == {<<>>, <<<<0, 1>>>>, <<<<0, 1>>, <<3, 0>>>>}

PointsChoices == {<<>>, <<<<1, 1>>>>, <<<<1, 1>>, <<0, 0>>, <<2, 0>>, <<1, 2>>>>}

\* keys a caller may add whose values the model does not read
ValuelessKeys == {"nscreen", "seed", "bbox", "plot", "pseudo_dt", "blend_width"}

UnknownKeys == {"verbose", "maxiter"}

\* a kwargs dict: the keys passed and the value of each; a key that is not
\* passed shows the default of opts (0 and <<>> stand for None)
Kw(keys, mi, mel, pf, pts, lock) ==
  [keys |-> keys,
   max_iter |-> IF "max_iter" \in keys THEN mi ELSE DefaultMaxIter,
   min_edge_length |-> IF "min_edge_length" \in keys THEN mel ELSE 0,
   pfix |-> IF "pfix" \in keys THEN pf ELSE <<>>,
   points |-> IF "points" \in keys THEN pts ELSE <<>>,
   lock_boundary |-> IF "lock_boundary" \in keys THEN lock ELSE FALSE,
   blend_max_iter |-> DefaultBlendMaxIter]

\* calls that vary the option keys, max_iter and min_edge_length
OptionCalls ==
  {<<Kw({"max_iter"} \cup mk \cup ek, mi, mel, <<>>, <<>>, FALSE), BoxIn, e>> :
     mk \in {{}, {"min_edge_length"}},
     ek \in {{}} \cup {{k} : k \in ValuelessKeys \cup UnknownKeys},
     mi \in 0..MaxIter, mel \in 0..1,
     e \in {Callable("uniform"), Grid(0, "uniform"), Grid(1, "uniform")}}

\* calls that seed P by the initial sampling
SeedingCalls ==
  {<<Kw({"max_iter", "min_edge_length"} \cup pk \cup lk, mi, mel, pf, <<>>, TRUE), bb,
     Callable(kind)>> :
     pk \in {{}, {"pfix"}}, lk \in {{}, {"lock_boundary"}}, mi \in 0..MaxIter,
     mel \in 0..1, pf \in PfixChoices, bb \in {BoxIn, BoxOut}, kind \in SizeKinds}

\* calls that supply P through `points`
PointsCalls ==
  {<<Kw({"max_iter", "min_edge_length", "points"} \cup pk \cup lk, mi, 1, pf, pts, TRUE),
     BoxIn, Callable("uniform")>> :
     pk \in {{}, {"pfix"}}, lk \in {{}, {"lock_boundary"}}, mi \in 1..MaxIter,
     pf \in PfixChoices, pts \in PointsChoices}

\* ms when generate_mesh is the function called
MsIdle ==
  [entry |-> "generate_mesh", pc |-> "idle", hmins |-> <<>>, domain_number |-> 0,
   global_minimum |-> 0, pts |-> <<>>, calls |-> <<>>, err |-> "none", ret |-> <<>>]

\* hmin of the smoothed size fields handed to the composer
HminValues == {1, 10000, 20000}

HminLists == UNION {[1..n -> HminValues] : n \in 1..MaxDomains}

\* keyword arguments of the composer calls
MsKwargs ==
  {[Kw(keys, mi, 1, <<>>, <<>>, TRUE) EXCEPT
      !.blend_max_iter = IF "blend_max_iter" \in keys THEN bmi ELSE @] :
     keys \in {{}, {"max_iter"}, {"lock_boundary"}, {"points"}, {"min_edge_length"},
               {"blend_max_iter"}, {"pfix"}, {"seed"}, {"nscreen"}, {"domain"},
               {"verbose"}, {"blend_max_iter", "seed"}},
     mi \in 0..1, bmi \in 0..1}

MsCalled(hm) ==
  [entry |-> "generate_multiscale_mesh", pc |-> "call", hmins |-> hm,
   domain_number |-> 0, global_minimum |-> 0, pts |-> <<>>, calls |-> <<>>,
   err |-> "none", ret |-> <<>>]

InitGenerateMesh ==
  /\ \E c \in OptionCalls \cup SeedingCalls \cup PointsCalls :
       /\ kwargs = c[1]
       /\ domain = c[2]
       /\ edge_length = c[3]
  /\ pc = "call"
  /\ ms = MsIdle

InitMultiscale ==
  /\ kwargs \in MsKwargs
  /\ domain = BoxIn
  /\ edge_length = Callable("uniform")
  /\ pc = "idle"
  /\ \E hm \in HminLists : ms = MsCalled(hm)

Init ==
  /\ InitGenerateMesh \/ InitMultiscale
  /\ err = "none"
  /\ seeded = FALSE
  /\ pfix = <<>>
  /\ nfix = 0
  /\ p = <<>>
  /\ t = {}
  /\ ifix = <<>>
  /\ Ftot = <<>>
  /\ count = 0
  /\ fixerCalls = <<>>
  /\ ret = <<>>
  /\ trace = <<>>

\* ------------------------------------------------------------------ entry
\* the local min_edge_length of generate_mesh (line 436)
min_edge_length == _unpack_sizing(edge_length, kwargs).val

\* the local fh of generate_mesh (line 436)
fh == edge_length.kind

\* line 504 written as count == max_iter
LastIterationOffByOne(c, max_iter) == c = max_iter

\* line 504: this is the last iteration
LastIteration(c, max_iter) == c = max_iter - 1

Raise(e) ==
  /\ pc' = "raised"
  /\ err' = e

\* lines 422-433: opts.update(kwargs); _parse_kwargs(kwargs)
ParseKwargs ==
  /\ pc = "call"
  /\ IF ParseKwargsRaises(kwargs.keys)
     THEN Raise("ValueError: option not recognized")
     ELSE pc' = "unpack" /\ err' = err
  /\ UNCHANGED <<inputs, seeded, locals, fixerCalls, ret, trace, ms>>

\* lines 435-443 without the assertion on max_iter
ValidateErrorNoMaxIter(e, kw) ==
  IF ~_unpack_sizing(e, kw).given THEN "TypeError: min_edge_length is None"
  ELSE IF ~(_unpack_sizing(e, kw).val > 0)
  THEN "AssertionError: min_edge_length must be > 0"
  ELSE "none"

\* the exception raised by lines 435-443, or "none"
ValidateError(e, kw) ==
  IF ~_unpack_sizing(e, kw).given THEN "TypeError: min_edge_length is None"
  ELSE IF ~(_unpack_sizing(e, kw).val > 0)
  THEN "AssertionError: min_edge_length must be > 0"
  ELSE IF ~(OptMaxIter(kw) > 0) THEN "AssertionError: max_iter must be > 0"
  ELSE "none"

\* lines 435-444: unpack domain and sizing, check bbox, the two assertions
Validate ==
  /\ pc = "unpack"
  /\ IF ValidateError(edge_length, kwargs) # "none"
     THEN Raise(ValidateError(edge_length, kwargs))
     ELSE pc' = "seed" /\ err' = err
  /\ UNCHANGED <<inputs, seeded, locals, fixerCalls, ret, trace, ms>>

\* lines 446-454: np.random.seed, tolerances, _unpack_pfix
SeedPRNG ==
  /\ pc = "seed"
  /\ seeded' = TRUE
  /\ pfix' = _unpack_pfix(kwargs)
  /\ nfix' = Len(_unpack_pfix(kwargs))
  /\ pc' = "init"
  /\ UNCHANGED <<inputs, err, p, t, ifix, Ftot, count, fixerCalls, ret, trace, ms>>

\* lines 468-476 without the assertion N > 0
AdoptPointsNoAssert(q) ==
  /\ p' = q
  /\ pc' = IF 0 < OptMaxIter(kwargs) THEN "triangulate" ELSE "fell off"
  /\ err' = err

\* lines 468-476 on the initial point set q: assert N > 0, enter the loop
AdoptPoints(q) ==
  IF Len(q) > 0
  THEN /\ p' = q
       /\ pc' = IF 0 < OptMaxIter(kwargs) THEN "triangulate" ELSE "fell off"
       /\ err' = err
  ELSE p' = q /\ Raise("AssertionError: No vertices to mesh with!")

\* lines 456-470: seed P or adopt `points`; assert N > 0
InitialPoints ==
  /\ pc = "init"
  /\ IF OptPointsGiven(kwargs)
     THEN AdoptPoints(kwargs.points)
     ELSE IF InitialPointsRaises(min_edge_length, domain, fh)
     THEN p' = p /\ Raise("ValueError: zero-size array")
     ELSE \E q \in _generate_initial_points(min_edge_length, domain, fh, pfix) : AdoptPoints(q)
  /\ UNCHANGED <<inputs, seeded, pfix, nfix, t, ifix, Ftot, count, fixerCalls, ret,
                 trace, ms>>

\* ------------------------------------------------------------------ loop
Step(name) == trace' = Append(trace, name)

\* lines 479-484: fresh Delaunay triangulation; read back (p, t)
Triangulate ==
  /\ pc = "triangulate"
  /\ \E q \in VertexOrders(Range(p)) :
       /\ p' = q
       /\ \E T \in Triangulations(q) : t' = T
  /\ Step("triangulate")
  /\ pc' = "lock"
  /\ UNCHANGED <<inputs, err, seeded, pfix, nfix, ifix, Ftot, count, fixerCalls, ret, ms>>

\* the indices _closest_node finds for the boundary points, in row order
BoundaryIndices(P, T) ==
  LET rows == {_closest_node(b, P) : b \in _external_topology(P, T)}
  IN [k \in 1..Cardinality(rows) |->
        CHOOSE i \in rows : Cardinality({j \in rows : j <= i}) = k]

\* the lock block followed directly by the exterior-triangle filter, the
\* block of lines 493-498 left out
LockBoundarySkipsFix ==
  /\ pc = "lock"
  /\ IF OptLockBoundary(kwargs)
     THEN /\ ifix' = BoundaryIndices(p, t)
          /\ nfix' = IF Cardinality(_external_topology(p, t)) > 0
                     THEN Cardinality(_external_topology(p, t))
                     ELSE nfix
     ELSE ifix' = <<>> /\ nfix' = nfix
  /\ Step("lock")
  /\ pc' = "filter"
  /\ UNCHANGED <<inputs, err, seeded, pfix, p, t, Ftot, count, fixerCalls, ret, ms>>

\* lines 486-491: ifix = []; with lock_boundary, one entry per boundary point
\* and nfix = len(ifix) inside the loop (so nfix is kept when there is none)
LockBoundary ==
  /\ pc = "lock"
  /\ IF OptLockBoundary(kwargs)
     THEN /\ ifix' = BoundaryIndices(p, t)
          /\ nfix' = IF Cardinality(_external_topology(p, t)) > 0
                     THEN Cardinality(_external_topology(p, t))
                     ELSE nfix
     ELSE ifix' = <<>> /\ nfix' = nfix
  /\ Step("lock")
  /\ pc' = "fix"
  /\ UNCHANGED <<inputs, err, seeded, pfix, p, t, Ftot, count, fixerCalls, ret, ms>>

\* lines 493-498: find where pfix went and snap it
FindFixed ==
  /\ pc = "fix"
  /\ IF nfix > 0
     THEN /\ p' = SnapFixed(p, pfix, 1)
          /\ ifix' = ifix \o SnapIndices(p, pfix, 1)
     ELSE UNCHANGED <<p, ifix>>
  /\ Step("fix")
  /\ pc' = "filter"
  /\ UNCHANGED <<inputs, err, seeded, pfix, nfix, t, Ftot, count, fixerCalls, ret, ms>>

\* lines 500-501
RemoveTrianglesOutside ==
  /\ pc = "filter"
  /\ t' = _remove_triangles_outside(p, t, min_edge_length)
  /\ Step("filter")
  /\ pc' = "check"
  /\ UNCHANGED <<inputs, err, seeded, pfix, nfix, p, ifix, Ftot, count, fixerCalls, ret, ms>>

\* lines 503-507: last iteration: fix_mesh and return
Terminate ==
  /\ pc = "check"
  /\ LastIteration(count, OptMaxIter(kwargs))
  /\ fixerCalls' = Append(fixerCalls, [p |-> p, t |-> t])
  /\ ret' = fix_mesh(p, t)
  /\ p' = fix_mesh(p, t).p
  /\ t' = fix_mesh(p, t).t
  /\ Step("fixer")
  /\ pc' = "returned"
  /\ UNCHANGED <<inputs, err, seeded, pfix, nfix, ifix, Ftot, count, ms>>

\* lines 509-510
ComputeForces ==
  /\ pc = "check"
  /\ ~LastIteration(count, OptMaxIter(kwargs))
  /\ Ftot' = _compute_forces(p, t, fh)
  /\ Step("force")
  /\ pc' = "zero"
  /\ UNCHANGED <<inputs, err, seeded, pfix, nfix, p, t, ifix, count, fixerCalls, ret, ms>>

\* lines 512-513
ZeroForces ==
  /\ pc = "zero"
  /\ Ftot' = ZeroFirst(Ftot, nfix)
  /\ Step("zero")
  /\ pc' = "integrate"
  /\ UNCHANGED <<inputs, err, seeded, pfix, nfix, p, t, ifix, count, fixerCalls, ret, ms>>

\* lines 515-516
Integrate ==
  /\ pc = "integrate"
  /\ p' = Integrated(p, Ftot)
  /\ Step("integrate")
  /\ pc' = "project"
  /\ UNCHANGED <<inputs, err, seeded, pfix, nfix, t, ifix, Ftot, count, fixerCalls, ret, ms>>

\* lines 518-519, then the next value of count (line 476)
ProjectBack ==
  /\ pc = "project"
  /\ p' = _project_points_back(p)
  /\ Step("project")
  /\ count' = count + 1
  /\ pc' = IF count + 1 < OptMaxIter(kwargs) THEN "triangulate" ELSE "fell off"
  /\ UNCHANGED <<inputs, err, seeded, pfix, nfix, t, ifix, Ftot, fixerCalls, ret, ms>>

GenerateMeshStep ==
  \/ ParseKwargs
  \/ Validate
  \/ SeedPRNG
  \/ InitialPoints
  \/ Triangulate
  \/ LockBoundary
  \/ FindFixed
  \/ RemoveTrianglesOutside
  \/ Terminate
  \/ ComputeForces
  \/ ZeroForces
  \/ Integrate
  \/ ProjectBack

\* ------------------------------------------------------------------ composer
gmVars ==
  <<kwargs, domain, edge_length, pc, err, seeded, pfix, nfix, p, t, ifix, Ftot,
    count, fixerCalls, ret, trace>>

\* opts["blend_max_iter"] of generate_multiscale_mesh
OptBlendMaxIter(kw) ==
  IF "blend_max_iter" \in kw.keys THEN kw.blend_max_iter ELSE DefaultBlendMaxIter

\* hmin of the master size field: the smallest hmin of the smoothed fields
MasterHmin(hm) == CHOOSE m \in Range(hm) : \A x \in Range(hm) : m <= x

\* a call generate_mesh(..., **kw) whose other arguments are named `bound`:
\* Python raises TypeError when kw repeats one of them; otherwise the callee
\* runs lines 422-444 on its keyword arguments ekw and its size function e
CallError(bound, e, kw, ekw) ==
  IF bound \cap kw.keys # {} THEN "TypeError: multiple values for argument"
  ELSE IF ParseKwargsRaises(ekw.keys) THEN "ValueError: option not recognized"
  ELSE ValidateError(e, ekw)

\* the keyword arguments of the blend call of lines 371-379
BlendKwargs(kw, gmin, pts) ==
  [kw EXCEPT !.keys = kw.keys \cup {"min_edge_length", "points", "max_iter",
                                     "lock_boundary"},
             !.min_edge_length = gmin,
             !.points = pts,
             !.max_iter = OptBlendMaxIter(kw),
             !.lock_boundary = TRUE]

MsRaise(e) == ms' = [ms EXCEPT !.pc = "raised", !.err = e]

\* lines 328-348: the two assertions, opts, _parse_kwargs
MsParseKwargs ==
  /\ ms.pc = "call"
  /\ IF ~(Len(ms.hmins) > 1)
     THEN MsRaise("AssertionError: takes a list of domains and sizing functions")
     ELSE IF ParseKwargsRaises(kwargs.keys)
     THEN MsRaise("ValueError: option not recognized")
     ELSE ms' = [ms EXCEPT !.pc = "prepare"]
  /\ UNCHANGED gmVars

\* lines 350-358: the master and smoothed size fields, the union and nested
\* domains, _p = [], global_minimum = 9999
MsPrepare ==
  /\ ms.pc = "prepare"
  /\ ms' = [ms EXCEPT !.pc = "loop", !.domain_number = 0,
                      !.global_minimum = GlobalMinimumStart, !.pts = <<>>]
  /\ UNCHANGED gmVars

\* lines 359-365: one relaxation of nest k with the caller's kwargs; its point
\* set is named by the number of its nest
MsSubRun ==
  /\ ms.pc = "loop"
  /\ ms.domain_number < Len(ms.hmins)
  /\ LET k == ms.domain_number + 1
         gmin == Min2(ms.global_minimum, ms.hmins[k])
         e == Grid(ms.hmins[k], "uniform")
         ce == CallError({"domain", "edge_length"}, e, kwargs, kwargs)
     IN IF ce # "none"
        THEN ms' = [ms EXCEPT !.pc = "raised", !.err = ce, !.global_minimum = gmin]
        ELSE ms' = [ms EXCEPT
                      !.global_minimum = gmin,
                      !.calls = Append(@, [domain |-> k, edge_length |-> k,
                                           kw |-> kwargs]),
                      !.pts = Append(@, k),
                      !.domain_number = k]
  /\ UNCHANGED gmVars

\* lines 367-381: concatenate, blend over the union with the master size field
\* (numbered 0), return the blend pass's result
MsBlend ==
  /\ ms.pc = "loop"
  /\ ms.domain_number = Len(ms.hmins)
  /\ LET bkw == BlendKwargs(kwargs, ms.global_minimum, ms.pts)
         e == Grid(MasterHmin(ms.hmins), "uniform")
         ce == CallError({"domain", "edge_length", "min_edge_length", "points",
                          "max_iter", "lock_boundary"}, e, kwargs, bkw)
     IN IF ce # "none"
        THEN MsRaise(ce)
        ELSE ms' = [ms EXCEPT
                      !.pc = "returned",
                      !.calls = Append(@, [domain |-> 0, edge_length |-> 0,
                                           kw |-> bkw]),
                      !.ret = <<0>>]
  /\ UNCHANGED gmVars

MultiscaleStep ==
  \/ MsParseKwargs
  \/ MsPrepare
  \/ MsSubRun
  \/ MsBlend

Next == GenerateMeshStep \/ MultiscaleStep

Spec == Init /\ [][Next]_vars

\* ------------------------------------------------------------------ claims
GM == ms.entry = "generate_mesh"

MS == ms.entry = "generate_multiscale_mesh"

UnknownOption == "ValueError: option not recognized"

NoVertices == "AssertionError: No vertices to mesh with!"

RECURSIVE Repeat(_, _)
Repeat(s, n) == IF n <= 0 THEN <<>> ELSE s \o Repeat(s, n - 1)

\* the steps of a run of n iterations: n - 1 full iterations, then the
\* terminal one
RunOf(n) ==
  Repeat(<<"triangulate", "lock", "fix", "filter", "force", "zero", "integrate",
           "project">>, n - 1)
    \o <<"triangulate", "lock", "fix", "filter", "fixer">>

\* C1: a run with max_iter = n performs exactly n retriangulations and never
\* leaves the loop early or falls off its end; iterations 0..n-2 run force,
\* zeroing, integration and projection; iteration n-1 calls the fixer, which is
\* called exactly once, and the run returns the fixer's (P, T) unchanged.
C1_ExactlyMaxIterIterations ==
  /\ pc # "fell off"
  /\ Len(fixerCalls) <= 1
  /\ Len(fixerCalls) = 1 => pc = "returned"
  /\ pc = "returned" =>
       /\ trace = RunOf(OptMaxIter(kwargs))
       /\ Len(fixerCalls) = 1
       /\ ret = fix_mesh(fixerCalls[1].p, fixerCalls[1].t)
       /\ p = ret.p
       /\ t = ret.t

C1_Witness ==
  /\ pc = "returned"
  /\ OptMaxIter(kwargs) >= 2
  /\ ret.t # {}

\* the rows of p that LockBoundary put in ifix (the boundary vertices); valid
\* once FindFixed has appended its own entries
BoundaryRows ==
  Range(SubSeq(ifix, 1, Len(ifix) - (IF nfix > 0 THEN Len(pfix) ELSE 0)))

\* C2: with lock_boundary, after the zeroing step of a non-terminal iteration
\* every vertex on the external boundary of T has zero force.
C2_BoundaryForceZero ==
  (OptLockBoundary(kwargs) /\ pc = "integrate") =>
    \A i \in BoundaryRows : Ftot[i] = <<0, 0>>

\* C3: with a non-empty pfix, after the fixed-point step the fixed points
\* occupy the first len(pfix) rows of p and equal pfix row by row.
C3_FixedPointsLead ==
  (Len(pfix) > 0 /\ pc = "filter") =>
    \A k \in 1..Len(pfix) : k <= Len(p) /\ p[k] = pfix[k]

\* C4: after the fixed-point step every fixed point is the position of exactly
\* one vertex of p.
C4_FixedPointFidelity ==
  pc = "filter" =>
    \A k \in 1..Len(pfix) : Cardinality({i \in 1..Len(p) : p[i] = pfix[k]}) = 1

\* C5: after each iteration, and in the P handed to the fixer, every point
\* satisfies fd(p) <= geps.
C5_InteriorContainment ==
  /\ (pc = "triangulate" /\ trace # <<>>) =>
       \A i \in 1..Len(p) : 1000 * fd(p[i]) <= min_edge_length
  /\ Len(fixerCalls) > 0 =>
       \A i \in 1..Len(fixerCalls[1].p) :
         1000 * fd(fixerCalls[1].p[i]) <= min_edge_length

\* the recognized options of the specification's table
TableKeys ==
  {"max_iter", "seed", "pfix", "points", "bbox", "min_edge_length", "plot",
   "lock_boundary", "pseudo_dt", "blend_width", "blend_polynomial",
   "blend_max_iter", "blend_nnear"}

\* the unknown-option error is raised, before anything else is done, exactly
\* when some key of the call lies outside K
UnknownOptionExactlyOutside(K) ==
  /\ (GM /\ pc # "call") =>
       /\ (kwargs.keys \subseteq K) <=> ~(pc = "raised" /\ err = UnknownOption)
       /\ err = UnknownOption =>
            ~seeded /\ p = <<>> /\ t = {} /\ trace = <<>> /\ ret = <<>>
  /\ (MS /\ ms.pc # "call" /\ Len(ms.hmins) > 1) =>
       /\ (kwargs.keys \subseteq K) <=> ~(ms.pc = "raised" /\ ms.err = UnknownOption)
       /\ ms.err = UnknownOption => ms.calls = <<>> /\ ms.pts = <<>>

\* C6 as claimed: both functions raise the unknown-option error exactly for
\* the keys outside the thirteen keys of the table.
C6_TableKeysOnly == UnknownOptionExactlyOutside(TableKeys)

\* C6 as amended: both functions raise the unknown-option error, before any
\* seeding, sub-domain run or triangulation, exactly for the keys outside the
\* thirteen keys of the table together with nscreen, domain and edge_length.
C6_SixteenKeys ==
  UnknownOptionExactlyOutside(TableKeys \cup {"nscreen", "domain", "edge_length"})

C6_Witness ==
  /\ GM
  /\ pc = "raised"
  /\ err = UnknownOption
  /\ "verbose" \in kwargs.keys

\* C7: a generate_mesh call with max_iter <= 0 or min_edge_length <= 0 never
\* seeds the PRNG, never holds a point or a triangle, never iterates and
\* returns nothing; it ends in an exception, which is the assertion on the
\* offending parameter when the call's keys are all recognized.
C7_InvalidParameterFailsEarly ==
  (/\ GM
   /\ _unpack_sizing(edge_length, kwargs).given
   /\ OptMaxIter(kwargs) <= 0 \/ min_edge_length <= 0) =>
    /\ ~seeded
    /\ p = <<>> /\ t = {} /\ trace = <<>> /\ ret = <<>> /\ fixerCalls = <<>>
    /\ pc \in {"call", "unpack", "raised"}
    /\ (pc = "raised" /\ kwargs.keys \subseteq RecognizedKeys) =>
         err = IF min_edge_length <= 0
               THEN "AssertionError: min_edge_length must be > 0"
               ELSE "AssertionError: max_iter must be > 0"

C7_Witness ==
  /\ GM
  /\ pc = "raised"
  /\ err = "AssertionError: max_iter must be > 0"
  /\ kwargs.max_iter = 0
  /\ min_edge_length > 0

\* C8 as claimed: a run that starts iterating has at least one seed point
\* besides pfix when P was seeded by the initial sampling, and a non-empty P.
C8_ZeroSeedsNeverIterate ==
  (pc = "triangulate" /\ trace = <<>>) =>
    /\ Len(p) > 0
    /\ ~OptPointsGiven(kwargs) => Len(p) > Len(pfix)

\* C8 as amended: the empty-initialization error is raised, before the first
\* triangulation, whenever the initial P (pfix followed by the surviving
\* seeds, or the supplied points) is empty, and only then; a run that starts
\* iterating has a non-empty P.
C8_EmptyPointSetFails ==
  /\ (pc = "triangulate" /\ trace = <<>>) => Len(p) > 0
  /\ (seeded /\ pc \notin {"seed", "init"} /\ p = <<>> /\ trace = <<>>) =>
       pc = "raised" /\ err \in {NoVertices, "ValueError: zero-size array"}
  /\ err = NoVertices =>
       pc = "raised" /\ p = <<>> /\ t = {} /\ trace = <<>> /\ fixerCalls = <<>>

C8_Witness ==
  /\ pc = "raised"
  /\ err = NoVertices
  /\ ~OptPointsGiven(kwargs)
  /\ domain = BoxOut

\* C9: for every set of recognized option keys with positive iteration counts
\* the composer ends by returning the blend pass's result, after one run per
\* nest in list order with the caller's options and then one blend run over
\* the union (0) with the master size field (0), the concatenated points,
\* max_iter = blend_max_iter and lock_boundary = true.
C9_ComposerRunsAndBlends ==
  (/\ MS
   /\ Len(ms.hmins) > 1
   /\ kwargs.keys \subseteq TableKeys
   /\ OptMaxIter(kwargs) > 0
   /\ OptBlendMaxIter(kwargs) > 0
   /\ ms.pc \in {"raised", "returned"}) =>
    LET n == Len(ms.hmins) IN
    /\ ms.pc = "returned"
    /\ Len(ms.calls) = n + 1
    /\ \A k \in 1..n :
         ms.calls[k] = [domain |-> k, edge_length |-> k, kw |-> kwargs]
    /\ ms.calls[n + 1].domain = 0
    /\ ms.calls[n + 1].edge_length = 0
    /\ ms.calls[n + 1].kw.points = [k \in 1..n |-> k]
    /\ ms.calls[n + 1].kw.max_iter = OptBlendMaxIter(kwargs)
    /\ ms.calls[n + 1].kw.lock_boundary = TRUE
    /\ ms.ret = <<0>>

\* C10: the min_edge_length passed to the blend pass is the minimum of hmin
\* over the smoothed size fields.
C10_BlendMinEdgeLength ==
  (MS /\ ms.pc = "returned") =>
    ms.calls[Len(ms.calls)].kw.min_edge_length = MasterHmin(ms.hmins)

\* the steps the ordering sentence names
NamedSteps == {"triangulate", "filter", "fix", "force", "integrate", "project"}

\* the positions of the trace at which an iteration starts
IterationStarts == {i \in 1..Len(trace) : trace[i] = "triangulate"}

\* the last position of the iteration that starts at i
IterationEnd(i) ==
  LET later == {j \in IterationStarts : j > i}
  IN IF later = {} THEN Len(trace)
     ELSE (CHOOSE j \in later : \A k \in later : j <= k) - 1

\* the named steps of the iteration that starts at i, in the order they ran
NamedStepsOf(i) ==
  SelectSeq(SubSeq(trace, i, IterationEnd(i)), LAMBDA s : s \in NamedSteps)

\* the iterations that ran to their end without reaching the terminal branch
NonTerminalIterations ==
  {i \in IterationStarts :
     IterationEnd(i) < Len(trace) \/ trace[IterationEnd(i)] = "project"}

IsPrefix(a, b) == Len(a) <= Len(b) /\ a = SubSeq(b, 1, Len(a))

\* C11 as stated: in every non-terminal iteration the named steps run exactly
\* once each in the order triangulate, filter, fix, force, integrate, project,
\* the filter being evaluated before the fixed points are snapped.
C11_FilterBeforeFix ==
  \A i \in NonTerminalIterations :
    NamedStepsOf(i) =
      <<"triangulate", "filter", "fix", "force", "integrate", "project">>

\* C11 amended: in every non-terminal iteration the named steps run exactly
\* once each in the order triangulate, fix, filter, force, integrate, project;
\* an iteration under way has run a prefix of that order, and when the filter
\* is evaluated the fixed points have already been snapped into p.
C11_FixBeforeFilter ==
  LET order == <<"triangulate", "fix", "filter", "force", "integrate", "project">>
  IN /\ \A i \in NonTerminalIterations : NamedStepsOf(i) = order
     /\ \A i \in IterationStarts : IsPrefix(NamedStepsOf(i), order)
     /\ (pc = "filter" /\ nfix > 0 /\ Len(pfix) > 0) =>
          /\ trace[Len(trace)] = "fix"
          /\ pfix[Len(pfix)] \in Range(p)

C11_Witness ==
  /\ GM
  /\ pc = "triangulate"
  /\ count >= 1
  /\ NonTerminalIterations # {}
  /\ nfix > 0
  /\ Len(pfix) > 0

\* three times the centroid of triangle tr over the positions P
CentroidTimes3(P, tr) ==
  <<P[tr[1]][1] + P[tr[2]][1] + P[tr[3]][1],
    P[tr[1]][2] + P[tr[2]][2] + P[tr[3]][2]>>

\* fd(centroid) < -geps with geps = min_edge_length / 1000, cleared of
\* fractions
CentroidInside(P, tr) ==
  1000 * FdScaled(CentroidTimes3(P, tr), 3) < -(3 * min_edge_length)

====
